---- MODULE Spec2Model ----
(***************************************************************************)
(* DruidCheckOperator (airflow/providers/apache/druid/operators/            *)
(* druid_check.py): one operator instance, built from a sql string and a    *)
(* druid broker connection id, whose execute() logs the sql, runs it        *)
(* through a cursor obtained in a with-block, fetches the first row, logs   *)
(* it and raises AirflowException when the record is falsy.                 *)
(*                                                                          *)
(* Python values are tagged records with the same four fields, so that any  *)
(* two of them can be compared: tag names the Python type, num holds a      *)
(* bool (0/1), an int, or a float in tenths, str holds a str, len holds     *)
(* the number of elements of a list or of a dict/set.                       *)
(***************************************************************************)
EXTENDS Integers, Sequences, FiniteSets, TLC

\* Longest first row the broker returns.
MaxRowLen == 2
\* Largest number of rows in one result set.
MaxRows == 2
\* Number of times the task host calls execute() on the operator.
MaxInvocations == 2

----------------------------------------------------------------------------
(* Python values *)

VBool(b) == [tag |-> "bool", num |-> IF b THEN 1 ELSE 0, str |-> "", len |-> 0]
VInt(n) == [tag |-> "int", num |-> n, str |-> "", len |-> 0]
VFloat(tenths) == [tag |-> "float", num |-> tenths, str |-> "", len |-> 0]
VStr(s) == [tag |-> "str", num |-> 0, str |-> s, len |-> 0]
VList(n) == [tag |-> "list", num |-> 0, str |-> "", len |-> n]
VDict(n) == [tag |-> "dict", num |-> 0, str |-> "", len |-> n]

\* The values a result column takes here: the docstring's falsy values and
\* truthy neighbours of each.
Values ==
    {VBool(FALSE), VBool(TRUE)}
    \cup {VInt(n) : n \in {-1, 0, 1, 5}}
    \cup {VFloat(0), VFloat(15)}
    \cup {VStr(s) : s \in {"", "0", " "}}
    \cup {VList(0), VList(1)}
    \cup {VDict(0), VDict(1)}

\* Python bool() of one column value, as the class docstring lists it.
PyBoolValue(v) ==
    CASE v.tag = "bool" -> v.num = 1
      [] v.tag = "int" -> v.num # 0
      [] v.tag = "float" -> v.num # 0
      [] v.tag = "str" -> v.str # ""
      [] v.tag = "list" -> v.len > 0
      [] v.tag = "dict" -> v.len > 0

\* A record is what get_first() hands back: unbound before the assignment of
\* line 89, None when the cursor has no row, else the row (a tuple).
Unbound == [tag |-> "unbound", row |-> <<>>]
None == [tag |-> "None", row |-> <<>>]
Row(r) == [tag |-> "tuple", row |-> r]

RowsOfLen(n) == [1..n -> Values]
Rows == UNION {RowsOfLen(n) : n \in 0..MaxRowLen}

\* Rows that follow the first one in a result set.
TailRows == {<<VInt(0)>>, <<VInt(5)>>}
Tails == UNION {[1..n -> TailRows] : n \in 0..(MaxRows - 1)}
ResultSets == {<<>>} \cup {<<r>> \o t : r \in Rows, t \in Tails}

PyBoolLenGtOne(rec) == rec.tag = "tuple" /\ Len(rec.row) > 1
PyBoolEmptyTupleOnly(rec) == rec.tag = "None" \/ Len(rec.row) > 0
PyBoolAllValues(rec) ==
    /\ rec.tag = "tuple"
    /\ Len(rec.row) > 0
    /\ \A i \in 1..Len(rec.row) : PyBoolValue(rec.row[i])
\* Python truth of the record in `if not record`: None is false, a tuple is
\* true exactly when it has at least one element.
PyBool(rec) == rec.tag = "tuple" /\ Len(rec.row) > 0

----------------------------------------------------------------------------
(* str(record), the argument of the second log line *)

Digit(d) ==
    CASE d = 0 -> "0" [] d = 1 -> "1" [] d = 2 -> "2" [] d = 3 -> "3"
      [] d = 4 -> "4" [] d = 5 -> "5" [] d = 6 -> "6" [] d = 7 -> "7"
      [] d = 8 -> "8" [] d = 9 -> "9"

RECURSIVE NatRepr(_)
NatRepr(n) == IF n < 10 THEN Digit(n) ELSE NatRepr(n \div 10) \o Digit(n % 10)

IntRepr(n) == IF n < 0 THEN "-" \o NatRepr(0 - n) ELSE NatRepr(n)

PyRepr(v) ==
    CASE v.tag = "bool" -> IF v.num = 1 THEN "True" ELSE "False"
      [] v.tag = "int" -> IntRepr(v.num)
      [] v.tag = "float" -> IntRepr(v.num \div 10) \o "." \o Digit(v.num % 10)
      [] v.tag = "str" -> "'" \o v.str \o "'"
      [] v.tag = "list" -> IF v.len = 0 THEN "[]" ELSE "[1]"
      [] v.tag = "dict" -> IF v.len = 0 THEN "{}" ELSE "{'k': 1}"

RECURSIVE JoinRepr(_)
JoinRepr(r) ==
    IF Len(r) = 0 THEN ""
    ELSE IF Len(r) = 1 THEN PyRepr(r[1])
    ELSE PyRepr(r[1]) \o ", " \o JoinRepr(Tail(r))

PyStr(rec) ==
    IF rec.tag = "None" THEN "None"
    ELSE IF Len(rec.row) = 1 THEN "(" \o PyRepr(rec.row[1]) \o ",)"
    ELSE "(" \o JoinRepr(rec.row) \o ")"

----------------------------------------------------------------------------
(* Exceptions and outcomes *)

NoExc == [type |-> "", msg |-> ""]
\* raise AirflowException("The query returned None")
CheckFailure == [type |-> "AirflowException", msg |-> "The query returned None"]
\* What get_conn() raises when the connection id does not resolve or the
\* session cannot be opened.
ConnectivityErrors ==
    {[type |-> "ConnectivityError", msg |-> "connection identifier cannot be resolved"],
     [type |-> "ConnectivityError", msg |-> "session cannot be opened"]}
\* What cur.execute() and cur.fetchone() raise when the engine fails.
QueryErrors ==
    {[type |-> "QueryExecutionError", msg |-> "malformed SQL"],
     [type |-> "QueryExecutionError", msg |-> "engine error"]}

Running == [kind |-> "running", exc |-> NoExc]
Returned == [kind |-> "return", exc |-> NoExc]
Raised(e) == [kind |-> "raise", exc |-> e]

NotRaised == [by |-> "", exc |-> NoExc]

LogLine(fmt, arg) == [fmt |-> fmt, arg |-> arg]
Call(op, arg) == [op |-> op, arg |-> arg]

----------------------------------------------------------------------------
(* State *)

VARIABLES
    sql,                   \* self.sql
    druid_broker_conn_id,  \* self.druid_broker_conn_id
    pc,                    \* position inside execute(); "idle" between calls
    invocations,           \* execute() calls started so far
    log,                   \* self.log.info lines of the current invocation
    calls,                 \* calls made on the hook, connection and cursor
    opened,                \* sessions opened so far
    closed,                \* sessions released so far
    result,                \* rows the broker holds for the executed query
    pos,                   \* rows the cursor has handed out
    fetched,               \* value of `return cur.fetchone()`, in flight
    record,                \* local `record` of execute()
    raised,                \* the exception a collaborator raised, and where
    exc_info,              \* the exception propagating out of get_first()
    outcome                \* how the current execute() ended

vars == <<sql, druid_broker_conn_id, pc, invocations, log, calls, opened,
          closed, result, pos, fetched, record, raised, exc_info, outcome>>

checkSpec == <<sql, druid_broker_conn_id>>

\* The operators built here: one with the default connection id, one with a
\* connection id of its own.
CheckSpecs ==
    {[sql |-> "SELECT COUNT(*) FROM foo",
      druid_broker_conn_id |-> "druid_broker_default"],
     [sql |-> "SELECT a, b FROM t LIMIT 1",
      druid_broker_conn_id |-> "druid_broker_prod"]}

\* __init__: the operator holds the sql and the connection id it was given.
Init ==
    /\ \E c \in CheckSpecs :
        /\ sql = c.sql
        /\ druid_broker_conn_id = c.druid_broker_conn_id
    /\ pc = "idle"
    /\ invocations = 0
    /\ log = <<>>
    /\ calls = <<>>
    /\ opened = 0
    /\ closed = 0
    /\ result = <<>>
    /\ pos = 0
    /\ fetched = Unbound
    /\ record = Unbound
    /\ raised = NotRaised
    /\ exc_info = NoExc
    /\ outcome = Running

----------------------------------------------------------------------------
(* execute(), one action per statement *)

\* The task host calls execute(context): a fresh frame, a fresh task log.
Invoke ==
    /\ pc \in {"idle", "done"}
    /\ invocations < MaxInvocations
    /\ invocations' = invocations + 1
    /\ pc' = "log_sql"
    /\ log' = <<>>
    /\ calls' = <<>>
    /\ result' = <<>>
    /\ pos' = 0
    /\ fetched' = Unbound
    /\ record' = Unbound
    /\ raised' = NotRaised
    /\ exc_info' = NoExc
    /\ outcome' = Running
    /\ UNCHANGED <<sql, druid_broker_conn_id, opened, closed>>

LogSqlRewrites ==
    /\ pc = "log_sql"
    /\ log' = Append(log, LogLine("Executing SQL check: %s", sql))
    /\ sql' = "SELECT 1"
    /\ pc' = "get_conn"
    /\ UNCHANGED <<druid_broker_conn_id, invocations, calls, opened, closed,
                   result, pos, fetched, record, raised, exc_info, outcome>>
\* self.log.info('Executing SQL check: %s', self.sql)
LogSql ==
    /\ pc = "log_sql"
    /\ log' = Append(log, LogLine("Executing SQL check: %s", sql))
    /\ pc' = "get_conn"
    /\ UNCHANGED <<sql, druid_broker_conn_id, invocations, calls, opened,
                   closed, result, pos, fetched, record, raised, exc_info,
                   outcome>>

\* with self.get_db_hook().get_conn() as cur: the session opens.
GetConn ==
    /\ pc = "get_conn"
    /\ calls' = Append(calls, Call("get_conn", druid_broker_conn_id))
    /\ opened' = opened + 1
    /\ pc' = "cur_execute"
    /\ UNCHANGED <<sql, druid_broker_conn_id, invocations, log, closed, result,
                   pos, fetched, record, raised, exc_info, outcome>>

GetConnRaisesSwallowed ==
    /\ pc = "get_conn"
    /\ \E e \in ConnectivityErrors :
        raised' = [by |-> "get_conn", exc |-> e]
    /\ calls' = Append(calls, Call("get_conn", druid_broker_conn_id))
    /\ record' = None
    /\ pc' = "log_record"
    /\ UNCHANGED <<sql, druid_broker_conn_id, invocations, log, opened, closed,
                   result, pos, fetched, exc_info, outcome>>
\* get_conn() raises before the with-block is entered: nothing to release,
\* no handler in get_first() or execute(), so execute() ends with the error.
GetConnRaises ==
    /\ pc = "get_conn"
    /\ \E e \in ConnectivityErrors :
        /\ raised' = [by |-> "get_conn", exc |-> e]
        /\ exc_info' = e
        /\ outcome' = Raised(e)
    /\ calls' = Append(calls, Call("get_conn", druid_broker_conn_id))
    /\ pc' = "done"
    /\ UNCHANGED <<sql, druid_broker_conn_id, invocations, log, opened, closed,
                   result, pos, fetched, record>>

\* cur.execute(sql): the broker runs the query and holds its rows.
CurExecute ==
    /\ pc = "cur_execute"
    /\ calls' = Append(calls, Call("execute", sql))
    /\ \E rs \in ResultSets : result' = rs
    /\ pos' = 0
    /\ pc' = "fetchone"
    /\ UNCHANGED <<sql, druid_broker_conn_id, invocations, log, opened, closed,
                   fetched, record, raised, exc_info, outcome>>

CurExecuteRaisesNoCleanup ==
    /\ pc = "cur_execute"
    /\ calls' = Append(calls, Call("execute", sql))
    /\ \E e \in QueryErrors :
        /\ raised' = [by |-> "execute", exc |-> e]
        /\ exc_info' = e
        /\ outcome' = Raised(e)
    /\ pc' = "done"
    /\ UNCHANGED <<sql, druid_broker_conn_id, invocations, log, opened, closed,
                   result, pos, fetched, record>>
\* cur.execute(sql) raises inside the with-block: control goes to __exit__.
CurExecuteRaises ==
    /\ pc = "cur_execute"
    /\ calls' = Append(calls, Call("execute", sql))
    /\ \E e \in QueryErrors :
        /\ raised' = [by |-> "execute", exc |-> e]
        /\ exc_info' = e
    /\ pc' = "with_exit"
    /\ UNCHANGED <<sql, druid_broker_conn_id, invocations, log, opened, closed,
                   result, pos, fetched, record, outcome>>

FetchOneLast ==
    /\ pc = "fetchone"
    /\ calls' = Append(calls, Call("fetchone", ""))
    /\ fetched' = IF Len(result) > 0 THEN Row(result[Len(result)]) ELSE None
    /\ pos' = Len(result)
    /\ pc' = "with_exit"
    /\ UNCHANGED <<sql, druid_broker_conn_id, invocations, log, opened, closed,
                   result, record, raised, exc_info, outcome>>
\* return cur.fetchone(): the next row of the cursor, or None when it has
\* none; the return value is held while the with-block exits.
FetchOne ==
    /\ pc = "fetchone"
    /\ calls' = Append(calls, Call("fetchone", ""))
    /\ fetched' = IF pos < Len(result) THEN Row(result[pos + 1]) ELSE None
    /\ pos' = IF pos < Len(result) THEN pos + 1 ELSE pos
    /\ pc' = "with_exit"
    /\ UNCHANGED <<sql, druid_broker_conn_id, invocations, log, opened, closed,
                   result, record, raised, exc_info, outcome>>

\* cur.fetchone() raises inside the with-block.
FetchOneRaises ==
    /\ pc = "fetchone"
    /\ calls' = Append(calls, Call("fetchone", ""))
    /\ \E e \in QueryErrors :
        /\ raised' = [by |-> "fetchone", exc |-> e]
        /\ exc_info' = e
    /\ pc' = "with_exit"
    /\ UNCHANGED <<sql, druid_broker_conn_id, invocations, log, opened, closed,
                   result, pos, fetched, record, outcome>>

ExitWithSwallows ==
    /\ pc = "with_exit"
    /\ calls' = Append(calls, Call("__exit__", ""))
    /\ closed' = closed + 1
    /\ record' = IF exc_info # NoExc THEN None ELSE fetched
    /\ pc' = "log_record"
    /\ UNCHANGED <<sql, druid_broker_conn_id, invocations, log, opened, result,
                   pos, fetched, raised, exc_info, outcome>>
\* Leaving the with-block: __exit__ releases the session on the way out,
\* then either the exception goes on through execute() or line 89 binds
\* the returned row to `record`.
ExitWith ==
    /\ pc = "with_exit"
    /\ calls' = Append(calls, Call("__exit__", ""))
    /\ closed' = closed + 1
    /\ IF exc_info # NoExc
       THEN /\ outcome' = Raised(exc_info)
            /\ pc' = "done"
            /\ UNCHANGED record
       ELSE /\ record' = fetched
            /\ pc' = "log_record"
            /\ UNCHANGED outcome
    /\ UNCHANGED <<sql, druid_broker_conn_id, invocations, log, opened, result,
                   pos, fetched, raised, exc_info>>

\* self.log.info("Record: %s", str(record))
LogRecord ==
    /\ pc = "log_record"
    /\ log' = Append(log, LogLine("Record: %s", PyStr(record)))
    /\ pc' = "decide"
    /\ UNCHANGED <<sql, druid_broker_conn_id, invocations, calls, opened,
                   closed, result, pos, fetched, record, raised, exc_info,
                   outcome>>

\* if not record: raise AirflowException("The query returned None")
Decide ==
    /\ pc = "decide"
    /\ IF ~PyBool(record)
       THEN /\ exc_info' = CheckFailure
            /\ outcome' = Raised(CheckFailure)
            /\ pc' = "done"
       ELSE /\ pc' = "log_success"
            /\ UNCHANGED <<exc_info, outcome>>
    /\ UNCHANGED <<sql, druid_broker_conn_id, invocations, log, calls, opened,
                   closed, result, pos, fetched, record, raised>>

LogSuccessSilent ==
    /\ pc = "log_success"
    /\ outcome' = Returned
    /\ pc' = "done"
    /\ UNCHANGED <<sql, druid_broker_conn_id, invocations, log, calls, opened,
                   closed, result, pos, fetched, record, raised, exc_info>>
\* self.log.info("Success."), then execute() returns None.
LogSuccess ==
    /\ pc = "log_success"
    /\ log' = Append(log, LogLine("Success.", ""))
    /\ outcome' = Returned
    /\ pc' = "done"
    /\ UNCHANGED <<sql, druid_broker_conn_id, invocations, calls, opened,
                   closed, result, pos, fetched, record, raised, exc_info>>

Next ==
    \/ Invoke
    \/ LogSql
    \/ GetConn
    \/ GetConnRaises
    \/ CurExecute
    \/ CurExecuteRaises
    \/ FetchOne
    \/ FetchOneRaises
    \/ ExitWith
    \/ LogRecord
    \/ Decide
    \/ LogSuccess

Spec == Init /\ [][Next]_vars

----------------------------------------------------------------------------
(* Properties *)

\* execute() got past get_first() and took the pass/fail decision.
Decided == pc = "done" /\ record # Unbound

\* The first row of a result set as fetchone() reports it.
FirstOf(rs) == IF Len(rs) = 0 THEN None ELSE Row(rs[1])

AllTruthy(rec) ==
    /\ rec.tag = "tuple"
    /\ Len(rec.row) > 0
    /\ \A i \in 1..Len(rec.row) : PyBoolValue(rec.row[i])

SomeFalsy(rec) ==
    /\ rec.tag = "tuple"
    /\ \E i \in 1..Len(rec.row) : ~PyBoolValue(rec.row[i])

CountCalls(op) == Cardinality({i \in 1..Len(calls) : calls[i].op = op})

SqlLine == LogLine("Executing SQL check: %s", sql)
RecordLine == LogLine("Record: %s", PyStr(record))
SuccessLine == LogLine("Success.", "")

FullCalls ==
    <<Call("get_conn", druid_broker_conn_id), Call("execute", sql),
      Call("fetchone", ""), Call("__exit__", "")>>
ExecuteFailedCalls ==
    <<Call("get_conn", druid_broker_conn_id), Call("execute", sql),
      Call("__exit__", "")>>

IsPrefix(s, t) == Len(s) <= Len(t) /\ \A i \in 1..Len(s) : s[i] = t[i]

\* C1: whenever the query ran and the fetched first row holds a falsy value
\* at some position, execute() ends by raising the check failure.
C1_FalsyValueFails ==
    (Decided /\ SomeFalsy(record)) => outcome = Raised(CheckFailure)

\* C2: whenever the query ran and the cursor had no row, execute() ends by
\* raising the check failure, whose message names the missing row, and it
\* never reaches the passing path.
C2_NoRowFails ==
    /\ (record = None => pc \in {"log_record", "decide", "done"})
    /\ (Decided /\ Len(result) = 0) =>
          /\ record = None
          /\ outcome = Raised(CheckFailure)
          /\ outcome.exc.msg = "The query returned None"

C2_Witness ==
    /\ Decided
    /\ Len(result) = 0
    /\ calls = FullCalls
    /\ outcome = Raised(CheckFailure)

\* C3: whenever a row with at least one value is fetched and each of its
\* values is truthy, execute() returns normally (None) and raises nothing.
C3_AllTruthyPasses ==
    (Decided /\ AllTruthy(record)) => (outcome = Returned /\ exc_info = NoExc)

C3_Witness ==
    /\ Decided
    /\ record \in {Row(<<VInt(-1), VStr(" ")>>), Row(<<VStr("0")>>)}
    /\ outcome = Returned

\* C4: at most one session is open at a time and every session opened
\* during execute() is released by the time execute() has finished.
C4_SessionReleased ==
    /\ opened - closed \in {0, 1}
    /\ (pc \in {"idle", "done"} => opened = closed)

C4_Witness ==
    /\ pc = "done"
    /\ raised.by = "execute"
    /\ opened = invocations
    /\ closed = opened

\* C5: when cur.execute() raises, execute() ends raising that very error:
\* no check failure, no second attempt, no fetch, no record, no return.
C5_QueryErrorPropagates ==
    raised.by = "execute" =>
        /\ pc \in {"with_exit", "done"}
        /\ record = Unbound
        /\ CountCalls("execute") = 1
        /\ CountCalls("fetchone") = 0
        /\ pc = "done" =>
              /\ outcome = Raised(raised.exc)
              /\ outcome.exc \in QueryErrors
              /\ outcome.exc # CheckFailure
              /\ calls = ExecuteFailedCalls

C5_Witness ==
    /\ pc = "done"
    /\ raised.by = "execute"
    /\ outcome.exc.msg = "malformed SQL"

\* C6: when get_conn() raises, execute() ends at once raising that very
\* error, the query was never executed, no second attempt was made, and the
\* error is neither a query error nor the check failure.
C6_ConnectivityErrorPropagates ==
    raised.by = "get_conn" =>
        /\ pc = "done"
        /\ outcome = Raised(raised.exc)
        /\ outcome.exc \in ConnectivityErrors
        /\ outcome.exc \notin QueryErrors \cup {CheckFailure}
        /\ calls = <<Call("get_conn", druid_broker_conn_id)>>
        /\ record = Unbound

C6_Witness ==
    /\ pc = "done"
    /\ raised.by = "get_conn"
    /\ outcome.exc.msg = "connection identifier cannot be resolved"
    /\ druid_broker_conn_id = "druid_broker_prod"

\* C7: one execute() runs the configured sql at most once and fetches at
\* most one row, calling get_conn, execute, fetchone, __exit__ in that order
\* before the decision; the record decided on is the first row and the rows
\* after it are never fetched and do not change the outcome.
C7_OneQueryOneFetch ==
    /\ IsPrefix(calls, FullCalls) \/ calls = ExecuteFailedCalls
    /\ pos <= 1
    /\ (pc \in {"log_record", "decide", "log_success"} \/ Decided) =>
          /\ calls = FullCalls
          /\ record = FirstOf(result)
    /\ Decided =>
          outcome = IF PyBool(FirstOf(result)) THEN Returned
                    ELSE Raised(CheckFailure)

C7_Witness ==
    /\ Decided
    /\ Len(result) = 2
    /\ result[1] = <<VInt(5)>>
    /\ result[2] = <<VInt(0)>>
    /\ pos = 1
    /\ outcome = Returned

\* What one call's outcome is, from what the collaborators did in that call.
OutcomeOf(rz, rs) ==
    IF rz # NotRaised THEN Raised(rz.exc)
    ELSE IF Len(rs) = 0 \/ Len(rs[1]) = 0 THEN Raised(CheckFailure)
    ELSE Returned

\* C8: no step changes self.sql or self.druid_broker_conn_id, and however
\* many calls went before, a finished execute() has the outcome fixed by
\* what the hook, the cursor and the broker did during that call.
C8_CheckSpecReadOnly ==
    /\ [][checkSpec' = checkSpec]_vars
    /\ [](pc = "done" => outcome = OutcomeOf(raised, result))

C8_Witness ==
    /\ invocations = 2
    /\ opened = 1
    /\ pc = "done"
    /\ outcome = Returned

\* C9 as stated: an execute() that took the decision emitted exactly two
\* log lines, the sql line and then the record line.
C9_ExactlyTwoLogLines ==
    Decided => log = <<SqlLine, RecordLine>>

\* C9 amended: the sql line is logged before any call on the hook, the
\* record line after the with-block is left and before the decision, which
\* is taken with exactly these two lines logged; the failing path logs
\* nothing more and the passing path logs a third line, "Success.".
C9_LogLinesAtDecision ==
    /\ (pc # "log_sql" /\ invocations > 0) => (Len(log) >= 1 /\ log[1] = SqlLine)
    /\ Len(calls) > 0 => Len(log) >= 1
    /\ Len(log) >= 2 =>
          /\ log[2] = RecordLine
          /\ calls = FullCalls
    /\ pc = "decide" => log = <<SqlLine, RecordLine>>
    /\ (Decided /\ outcome.kind = "raise") => log = <<SqlLine, RecordLine>>
    /\ (Decided /\ outcome.kind = "return") =>
          log = <<SqlLine, RecordLine, SuccessLine>>

C9_Witness ==
    /\ Decided
    /\ outcome = Returned
    /\ log = <<LogLine("Executing SQL check: %s", "SELECT COUNT(*) FROM foo"),
               LogLine("Record: %s", "(5,)"), SuccessLine>>

====
